---- MODULE Spec2Model ----
(* gogitlocalstats, the stats command (src/main.go, the listing of stats.go): *)
(* processRepositories / fillCommits build the histogram of commits per day,  *)
(* buildCols folds it into week columns and printCells renders the grid.      *)
(*                                                                            *)
(* Time is counted in hours since an arbitrary Sunday 00:00 local time, and   *)
(* every local day is 24 hours long (no change of the UTC offset falls into   *)
(* the window).  printMonths only prints the header line and is left out.     *)
EXTENDS Integers, Sequences, FiniteSets, TLC

\* ---------------------------------------------------------------- constants

\* const daysInLastSixMonths = 183
daysInLastSixMonths == 183

\* const outOfRange = 99999
outOfRange == 99999

\* weeksInLastSixMonths is used by printCells but its declaration is not part
\* of the listing; 26 gives the ceil((183 + 7) / 7) = 28 printed columns.
weeksInLastSixMonths == 26

\* time.Hour * 24, in hours
HoursPerDay == 24

\* time.Weekday has seven values, time.Sunday = 0
DaysPerWeek == 7

\* ------------------------------------------------------------------- bounds

\* the repository list read from the dot file holds at most MaxRepos paths
MaxRepos == 2

\* at most MaxCommits commits are yielded by the iterators of one run
MaxCommits == 2

\* the run starts StartHour hours into its day and the wall clock is seen to
\* advance in steps of TickHours hours
StartHour == 22
TickHours == 2

\* the run starts on one of the seven days FirstDay .. FirstDay + 6
FirstDay == 210

\* printCell is exercised on the values 0 .. MaxVal
MaxVal == 999

\* ------------------------------------------------------------------- inputs

\* the -email flag, and some other author
email == "me"

\* outcomes of git.PlainOpen, repo.Head and repo.Log
OpenOutcomes == {"ok", "open", "head", "log"}

VARIABLES
    clock,      \* time.Now(), in hours
    day0,       \* the day on which the run started
    pc,         \* position of the run
    err,        \* the panic that ended the run, or "none"
    nRepos,     \* len(repos), the repository list of the dot file
    repoIdx,    \* number of repositories fillCommits has been entered for
    nCommits,   \* number of commits the iterators yielded so far
    repoCommits,\* number of commits the current iterator yielded so far
    commits,    \* the commits map[int]int
    offset,     \* fillCommits: offset := calcOffset()
    last,       \* ForEach callback: c.Author.When and countDaysSinceDate of it
    seen,       \* how often each (email, timestamp) was yielded by an iterator
    offsetReads,\* the values calcOffset() returned during the run
    dayReads,   \* the values of now in countDaysSinceDate during the run
    cols,       \* the map[int]column built by buildCols
    out,        \* the rows printed so far, in print order
    cell,       \* the last cell printed by printCell (SpecCell)
    dotFile,    \* the dot file of the repository list (SpecScan)
    found,      \* scan: the slice recursiveScanFolder returned last
    added       \* scan: the paths handed to addNewSliceElementsToFile so far

\* before any commit was seen, before any cell was printed
NoCommit == [when |-> 0, days |-> 0]
NoCell == [val |-> 0, today |-> FALSE, escape |-> "", text |-> <<>>]

vars == <<clock, day0, pc, err, nRepos, repoIdx, nCommits, repoCommits, commits,
          offset,
          last, seen, offsetReads, dayReads, cols, out, cell,
          dotFile, found, added>>

\* the state of the scan command; a stats run is followed from the point
\* where its list of nRepos paths has been read
scanVars == <<dotFile, found, added>>

\* a dot file that does not exist
NoFile == [exists |-> FALSE, content |-> <<>>]

\* ---------------------------------------------------------------- date math

\* t.Weekday(): 0 = Sunday .. 6 = Saturday
Weekday(t) == (t \div HoursPerDay) % DaysPerWeek

\* getBeginningOfDay given a time.Time calculates the start time of that day
getBeginningOfDay(t) == t - (t % HoursPerDay)

\* countStep with !date.After(now) for date.Before(now)
countStepNotAfter(st, now) ==
    IF st.done THEN st
    ELSE IF st.date <= now
         THEN IF st.days + 1 > daysInLastSixMonths
              THEN [st EXCEPT !.done = TRUE, !.ret = outOfRange]
              ELSE [st EXCEPT !.date = @ + HoursPerDay, !.days = @ + 1]
         ELSE [st EXCEPT !.done = TRUE, !.ret = st.days]

\* one iteration of the loop of countDaysSinceDate; st holds date and days,
\* and, once the function has returned (done), the value returned (ret)
countStep(st, now) ==
    IF st.done THEN st
    ELSE IF st.date < now
         THEN IF st.days + 1 > daysInLastSixMonths
              THEN [st EXCEPT !.done = TRUE, !.ret = outOfRange]
              ELSE [st EXCEPT !.date = @ + HoursPerDay, !.days = @ + 1]
         ELSE [st EXCEPT !.done = TRUE, !.ret = st.days]

\* n iterations of the loop (split in halves to keep the evaluation shallow)
RECURSIVE countLoop(_, _, _)
countLoop(st, now, n) ==
    IF st.done \/ n = 0 THEN st
    ELSE IF n = 1 THEN countStep(st, now)
    ELSE countLoop(countLoop(st, now, n \div 2), now, n - (n \div 2))

\* countDaysSinceDate counts how many days passed since the passed `date`
\* (t is the value of time.Now()); the loop ends within
\* daysInLastSixMonths + 1 iterations
countDaysSinceDate(date, t) ==
    countLoop([date |-> date, days |-> 0, done |-> FALSE, ret |-> 0],
              getBeginningOfDay(t), daysInLastSixMonths + 2).ret

\* calcOffset without the case time.Sunday: offset stays at its zero value
calcOffsetNoSunday(t) ==
    IF Weekday(t) = 0 THEN 0 ELSE DaysPerWeek - Weekday(t)

\* calcOffset determines the amount of days missing to fill the last row
\* (t is the value of time.Now())
calcOffset(t) ==
    CASE Weekday(t) = 0 -> 7
      [] Weekday(t) = 1 -> 6
      [] Weekday(t) = 2 -> 5
      [] Weekday(t) = 3 -> 4
      [] Weekday(t) = 4 -> 3
      [] Weekday(t) = 5 -> 2
      [] Weekday(t) = 6 -> 1
      [] OTHER -> 0

\* the timestamps (c.Author.When) a commit may carry, as <<a, h>>: hour h of
\* the day a days before the day the run starts.  The last hour of today
\* (later than the start of the run), the first hour of today, the last hour
\* of yesterday, the first hour of the last day of the window and the last
\* hour of the day before it
CommitAges == {<<0, HoursPerDay - 1>>, <<0, 0>>, <<1, HoursPerDay - 1>>,
               <<daysInLastSixMonths, 0>>,
               <<daysInLastSixMonths + 1, HoursPerDay - 1>>}
timeOf(c) == HoursPerDay * (day0 - c[1]) + c[2]
CommitTimes == {timeOf(c) : c \in CommitAges}

\* the commits an iterator may yield, as <<c.Author.Email, c.Author.When>>:
\* the target author at each of the timestamps, another author inside and
\* outside the window
Commits ==
    ({email} \X CommitTimes)
    \cup {<<"other", timeOf(<<1, HoursPerDay - 1>>)>>,
          <<"other", timeOf(<<daysInLastSixMonths + 1, HoursPerDay - 1>>)>>}

\* ---------------------------------------------------------- Day Aggregator

\* the map pre-seeded from key 0 on: for i := daysInMap; i >= 0; i--
emptyCommitsFromZero == [i \in 0..daysInLastSixMonths |-> 0]

\* processRepositories: commits := make(map[int]int, daysInMap);
\* for i := daysInMap; i > 0; i-- { commits[i] = 0 }
emptyCommits == [i \in 1..daysInLastSixMonths |-> 0]

\* commits[k]++ on a Go map: a missing key reads as 0
increment(m, k) ==
    IF k \in DOMAIN m THEN [m EXCEPT ![k] = @ + 1] ELSE (k :> 1) @@ m

\* forEachCommit without the test of c.Author.Email
forEachCommitAnyAuthor(m, off, authorEmail, days) ==
    IF days + off # outOfRange THEN increment(m, days + off) ELSE m

\* the callback fillCommits passes to iterator.ForEach, for a commit with
\* c.Author.Email = authorEmail for which countDaysSinceDate returned days,
\* the map m and the offset off: the map after the callback
forEachCommit(m, off, authorEmail, days) ==
    LET daysAgo == days + off
    IN  IF authorEmail # email
        THEN m
        ELSE IF daysAgo # outOfRange
             THEN increment(m, daysAgo)
             ELSE m

\* what fillCommits does when git.PlainOpen, repo.Head or repo.Log returns
\* the outcome o: "run" the iterator, or "panic"
onOpen(o) == IF o = "ok" THEN "run" ELSE "panic"

\* what fillCommits does when iterator.ForEach returns (failed: err != nil)
onForEach(failed) == IF failed THEN "panic" ELSE "return"

\* Panic with the failure recorded and the run going on with the next
\* repository
PanicSkip(e) ==
    /\ pc' = "repos"
    /\ err' = e
    /\ UNCHANGED <<commits, cols, offset, last, seen, offsetReads, dayReads,
                   repoCommits, clock, day0, nRepos, nCommits, cell>>

\* panic(err): the process exits; no value is returned and what it held in
\* memory is gone, what it printed stays on the terminal
Panic(e) ==
    /\ pc' = "panic"
    /\ err' = e
    /\ commits' = <<>>
    /\ cols' = <<>>
    /\ offset' = 0
    /\ last' = NoCommit
    /\ seen' = [c \in DOMAIN seen |-> 0]
    /\ offsetReads' = {}
    /\ dayReads' = {}
    /\ repoCommits' = 0
    /\ UNCHANGED <<clock, day0, nRepos, nCommits, cell>>

\* stats -> processRepositories: the list is read, the map is pre-seeded
ProcessRepositories ==
    /\ UNCHANGED scanVars
    /\ pc = "stats"
    /\ pc' = "repos"
    /\ commits' = emptyCommits
    /\ UNCHANGED <<clock, day0, err, nRepos, repoIdx, nCommits, repoCommits,
                   offset, last, seen, offsetReads, dayReads, cols, out, cell>>

\* fillCommits up to offset := calcOffset(), for the next path of the list
FillCommitsOpen ==
    /\ UNCHANGED scanVars
    /\ pc = "repos"
    /\ repoIdx < nRepos
    /\ repoIdx' = repoIdx + 1
    /\ \E o \in OpenOutcomes :
        IF onOpen(o) = "run"
        THEN /\ pc' = "log"
             /\ offset' = calcOffset(clock)
             /\ offsetReads' = offsetReads \cup {calcOffset(clock)}
             /\ UNCHANGED <<clock, day0, err, nRepos, nCommits, repoCommits,
                            commits, last, seen, dayReads, cols, out, cell>>
        ELSE Panic(o) /\ out' = out

\* one call of the ForEach callback
FillCommitsForEach ==
    /\ UNCHANGED scanVars
    /\ pc = "log"
    /\ nCommits < MaxCommits
    /\ nCommits' = nCommits + 1
    /\ repoCommits' = repoCommits + 1
    /\ \E c \in Commits :
        \E days \in {countDaysSinceDate(c[2], clock)} :
            /\ commits' = forEachCommit(commits, offset, c[1], days)
            /\ last' = [when |-> c[2], days |-> days]
            /\ seen' = [seen EXCEPT ![c] = @ + 1]
    /\ dayReads' = dayReads \cup {getBeginningOfDay(clock)}
    /\ UNCHANGED <<clock, day0, pc, err, nRepos, repoIdx, offset, offsetReads,
                   cols, out, cell>>

\* iterator.ForEach returns: fillCommits returns the map, or panics
FillCommitsReturn ==
    /\ UNCHANGED scanVars
    /\ pc = "log"
    /\ \E failed \in BOOLEAN :
        IF onForEach(failed) = "panic"
        THEN Panic("iter") /\ UNCHANGED <<repoIdx, out>>
        ELSE /\ pc' = "repos"
             /\ last' = NoCommit
             /\ repoCommits' = 0
             /\ UNCHANGED <<clock, day0, err, nRepos, repoIdx, nCommits,
                            commits, offset, seen, offsetReads, dayReads,
                            cols, out, cell>>

\* ---------------------------------------------------------- Calendar Folder

\* sort.Ints: the ascending sequence of the elements of a finite set S
RECURSIVE sortInts(_)
sortInts(S) ==
    IF S = {} THEN <<>>
    ELSE LET lo == CHOOSE x \in S : \A y \in S : x <= y
         IN  <<lo>> \o sortInts(S \ {lo})

\* sortMapIntoSlice returns a slice of indexes of a map, ordered (Lim only
\* splits the work: the keys in 1..Lim are picked by scanning 1..Lim, the
\* other keys are sorted by sortInts)
sortMapIntoSlice(m) ==
    LET Lim   == daysInLastSixMonths + DaysPerWeek
        small == SelectSeq([i \in 1..Lim |-> i], LAMBDA i : i \in DOMAIN m)
    IN  small \o sortInts({k \in DOMAIN m : k < 1 \/ k > Lim})

\* one iteration of the loop of buildCols for the key k: st holds the map
\* cols and the current column col
buildStep(st, k, m) ==
    LET week      == k \div DaysPerWeek
        dayinweek == k % DaysPerWeek
        reset     == IF dayinweek = 0 THEN <<>> ELSE st.col
        col       == Append(reset, m[k])
    IN  [col  |-> col,
         cols |-> IF dayinweek = 6 THEN (week :> col) @@ st.cols ELSE st.cols]

\* the iterations of the loop for keys[lo] .. keys[hi] (split in halves to
\* keep the evaluation shallow; a column never grows longer than keys)
RECURSIVE buildLoop(_, _, _, _, _)
buildLoop(st, keys, lo, hi, m) ==
    IF Len(st.col) > Len(keys) \/ lo > hi THEN st
    ELSE IF lo = hi THEN buildStep(st, keys[lo], m)
    ELSE LET mid == (lo + hi) \div 2
         IN  buildLoop(buildLoop(st, keys, lo, mid, m), keys, mid + 1, hi, m)

\* buildCols generates a map with rows and columns ready to be printed
buildCols(keys, m) ==
    buildLoop([col |-> <<>>, cols |-> <<>>], keys, 1, Len(keys), m).cols

\* --------------------------------------------------------- Heatmap Renderer

DigitChars == <<"0", "1", "2", "3", "4", "5", "6", "7", "8", "9">>

\* the characters fmt prints for %d of a non-negative integer
RECURSIVE formatInt(_)
formatInt(n) ==
    IF n < 10 THEN <<DigitChars[n + 1]>>
    ELSE formatInt(n \div 10) \o <<DigitChars[(n % 10) + 1]>>

\* printCell: the escape sequence chosen for val and today
\* (the parameters of ESC [ ... m)
cellEscape(val, today) ==
    IF today THEN "1;37;45"
    ELSE CASE val > 0 /\ val < 5   -> "1;30;47"
           [] val >= 5 /\ val < 10 -> "1;30;43"
           [] val >= 10            -> "1;30;42"
           [] OTHER                -> "0;37;30"

\* printCell: the visible characters printed for val; a switch takes the
\* first case that matches
cellText(val) ==
    IF val = 0 THEN <<" ", " ", "-", " ">>
    ELSE LET lead == CASE val >= 10  -> <<" ">>
                       [] val >= 100 -> <<>>
                       [] OTHER      -> <<" ", " ">>
         IN  lead \o formatInt(val) \o <<" ">>

\* printCell given a cell value prints it with a different format
\* based on the value amount, and on the `today` flag
printCell(val, today) ==
    [val |-> val, today |-> today,
     escape |-> cellEscape(val, today), text |-> cellText(val)]

\* printDayCol given the day number (0 is Sunday) prints the day name
printDayCol(day) ==
    CASE day = 1 -> " Mon "
      [] day = 3 -> " Wed "
      [] day = 5 -> " Fri "
      [] OTHER   -> "     "

\* what stands for a cell when printCells panics instead of printing it
\* (runtime error: index out of range)
indexPanic == [val |-> 0, today |-> FALSE, escape |-> "panic", text |-> <<>>]

\* col[j] of a Go slice: the index must be below len(col)
\* (a column is a sequence, position j is its element j + 1)
inRange(col, j) == j >= 0 /\ j < Len(col)

\* the body of the inner loop of printCells for week i and row j, with
\* time.Now() = t: the cell printed, or indexPanic
cellAt(cs, i, j, t) ==
    IF i \in DOMAIN cs
    THEN IF i = 0 /\ j = calcOffset(t) - 1
         THEN IF inRange(cs[i], j)
              THEN printCell(cs[i][j + 1], TRUE)
              ELSE indexPanic
         ELSE IF Len(cs[i]) > j
              THEN printCell(cs[i][j + 1], FALSE)
              ELSE printCell(0, FALSE)
    ELSE printCell(0, FALSE)

\* the weeks of one printed row, left to right:
\* for i := weeksInLastSixMonths + 1; i >= 0; i--
rowWeeks ==
    [n \in 1..(weeksInLastSixMonths + 2) |-> weeksInLastSixMonths + 2 - n]

\* one row of printCells: the label and the cells, left to right
printRow(cs, j, t) ==
    [day   |-> j,
     label |-> printDayCol(j),
     cells |-> [n \in DOMAIN rowWeeks |-> cellAt(cs, rowWeeks[n], j, t)]]

\* the row panics when one of its cells does
rowPanics(r) == \E n \in DOMAIN r.cells : r.cells[n] = indexPanic

\* the rows of printCells in print order: for j := 6; j >= 0; j--
printRows(cs, t) == [n \in 1..DaysPerWeek |-> printRow(cs, DaysPerWeek - n, t)]

\* the rows printed before the first row that panics (all, when none does)
printed(rows) ==
    SubSeq(rows, 1,
           IF \E n \in DOMAIN rows : rowPanics(rows[n])
           THEN (CHOOSE n \in DOMAIN rows :
                    /\ rowPanics(rows[n])
                    /\ \A k \in 1..(n - 1) : ~rowPanics(rows[k])) - 1
           ELSE Len(rows))

\* processRepositories returns the map; printCommitsStats sorts its keys,
\* builds the columns and prints the cells
PrintCommitsStats ==
    /\ UNCHANGED scanVars
    /\ pc = "repos"
    /\ repoIdx = nRepos
    /\ \E grid \in {buildCols(sortMapIntoSlice(commits), commits)} :
       \E rows \in {printRows(grid, clock)} :
           /\ out' = printed(rows)
           /\ IF Len(out') < Len(rows)
              THEN Panic("index") /\ repoIdx' = repoIdx
              ELSE /\ pc' = "done"
                   /\ cols' = grid
                   /\ offsetReads' = IF 0 \in DOMAIN grid
                                     THEN offsetReads \cup {calcOffset(clock)}
                                     ELSE offsetReads
                   /\ UNCHANGED <<clock, day0, err, nRepos, repoIdx, nCommits,
                                  repoCommits, commits, offset, last, seen,
                                  dayReads, cell>>

\* ------------------------------------------------------------ the wall clock

\* time passes while the run is in progress; a run is taken to be over
\* before a second midnight passes
Tick ==
    /\ UNCHANGED scanVars
    /\ pc \notin {"done", "panic"}
    /\ getBeginningOfDay(clock) = HoursPerDay * day0
    /\ clock' = clock + TickHours
    /\ UNCHANGED <<day0, pc, err, nRepos, repoIdx, nCommits, repoCommits,
                   commits, offset, last, seen, offsetReads, dayReads, cols,
                   out, cell>>

\* ------------------------------------------------------------ specification

Init ==
    /\ day0 \in FirstDay..(FirstDay + DaysPerWeek - 1)
    /\ clock = HoursPerDay * day0 + StartHour
    /\ pc = "stats"
    /\ err = "none"
    /\ nRepos \in 0..MaxRepos
    /\ repoIdx = 0
    /\ nCommits = 0
    /\ repoCommits = 0
    /\ commits = <<>>
    /\ offset = 0
    /\ last = NoCommit
    /\ seen = [c \in Commits |-> 0]
    /\ offsetReads = {}
    /\ dayReads = {}
    /\ cols = <<>>
    /\ out = <<>>
    /\ cell = NoCell
    /\ dotFile = NoFile
    /\ found = <<>>
    /\ added = {}

Next ==
    \/ ProcessRepositories
    \/ FillCommitsOpen
    \/ FillCommitsForEach
    \/ FillCommitsReturn
    \/ PrintCommitsStats
    \/ Tick

Spec == Init /\ [][Next]_vars

\* printCell on its own, for every value 0 .. MaxVal and both flags
PrintCellCall ==
    /\ UNCHANGED scanVars
    /\ pc = "cell"
    /\ \E v \in 0..MaxVal, t \in BOOLEAN : cell' = printCell(v, t)
    /\ UNCHANGED <<clock, day0, pc, err, nRepos, repoIdx, nCommits,
                   repoCommits, commits, offset, last, seen, offsetReads,
                   dayReads, cols, out>>

InitCell ==
    /\ day0 = FirstDay
    /\ clock = HoursPerDay * day0 + StartHour
    /\ pc = "cell"
    /\ err = "none"
    /\ nRepos = 0
    /\ repoIdx = 0
    /\ nCommits = 0
    /\ repoCommits = 0
    /\ commits = <<>>
    /\ offset = 0
    /\ last = NoCommit
    /\ seen = <<>>
    /\ offsetReads = {}
    /\ dayReads = {}
    /\ cols = <<>>
    /\ out = <<>>
    /\ cell = NoCell
    /\ dotFile = NoFile
    /\ found = <<>>
    /\ added = {}

NextCell == PrintCellCall

SpecCell == InitCell /\ [][NextCell]_vars

\* ---------------------------------------------------- Repository Path Store

\* strings are sequences of characters; the longest slice a scan finds
MaxFound == 3
Paths == {<<"a">>, <<"b">>, <<"a", "b">>, <<"b", "a">>}
FoundLists == UNION {[1..n -> Paths] : n \in 0..MaxFound}

\* the elements of a slice
Range(slice) == {slice[i] : i \in DOMAIN slice}

\* openFile: os.OpenFile(filePath, os.O_APPEND|os.O_WRONLY, 0755); when the
\* file does not exist it is created, the descriptor os.Create returns is
\* dropped and the nil *os.File of the failed os.OpenFile is returned
openFile(file) ==
    IF file.exists
    THEN [f |-> "O_WRONLY", file |-> file]
    ELSE [f |-> "nil", file |-> [exists |-> TRUE, content |-> <<>>]]

\* f.Read gives data only on a descriptor opened for reading; on a nil
\* *os.File it returns os.ErrInvalid, on a write-only one EBADF
readable(f) == f \in {"O_RDONLY", "O_RDWR"}

\* bufio.Scanner with the default split function: the lines of content,
\* from position i on, line being the part of the current line read so far
RECURSIVE scanLines(_, _, _)
scanLines(content, i, line) ==
    IF i > Len(content)
    THEN IF line = <<>> THEN <<>> ELSE <<line>>
    ELSE IF content[i] = "\n"
         THEN <<line>> \o scanLines(content, i + 1, <<>>)
         ELSE scanLines(content, i + 1, Append(line, content[i]))

\* parseFileLinesToSlice: the lines of the file, or panic(err) when
\* scanner.Err() is an error other than io.EOF
parseFileLinesToSlice(file) ==
    LET o == openFile(file)
    IN  IF readable(o.f)
        THEN [panic |-> FALSE, file |-> o.file,
              lines |-> scanLines(o.file.content, 1, <<>>)]
        ELSE [panic |-> TRUE, file |-> o.file, lines |-> <<>>]

\* sliceContains returns true if slice contains value
sliceContains(slice, value) == \E i \in DOMAIN slice : slice[i] = value

\* joinSlices adds the elements of the new slice into the existing slice,
\* only if not already there
RECURSIVE joinSlices(_, _)
joinSlices(new, existing) ==
    IF new = <<>>
    THEN existing
    ELSE joinSlices(Tail(new),
                    IF sliceContains(existing, new[1])
                    THEN existing
                    ELSE Append(existing, new[1]))

\* strings.Join(repos, "\n")
RECURSIVE join(_)
join(repos) ==
    IF repos = <<>> THEN <<>>
    ELSE IF Len(repos) = 1 THEN repos[1]
    ELSE repos[1] \o <<"\n">> \o join(Tail(repos))

\* dumpStringsSliceToFile writes content to the file, overwriting it
dumpStringsSliceToFile(repos) == [exists |-> TRUE, content |-> join(repos)]

\* addNewSliceElementsToFile: the dot file after the call, and whether the
\* call ended in a panic
addNewSliceElementsToFile(file, newRepos) ==
    LET existingRepos == parseFileLinesToSlice(file)
    IN  IF existingRepos.panic
        THEN [panic |-> TRUE, file |-> existingRepos.file]
        ELSE [panic |-> FALSE,
              file |-> dumpStringsSliceToFile(
                           joinSlices(newRepos, existingRepos.lines))]

\* one run of the scan command: recursiveScanFolder finds newRepos, which
\* are added to the dot file
Scan ==
    /\ pc = "scan"
    /\ \E newRepos \in FoundLists :
       \E r \in {addNewSliceElementsToFile(dotFile, newRepos)} :
           /\ dotFile' = r.file
           /\ err' = IF r.panic THEN "read" ELSE "none"
           /\ found' = newRepos
           /\ added' = added \cup Range(newRepos)
    /\ UNCHANGED <<clock, day0, pc, nRepos, repoIdx, nCommits, repoCommits,
                   commits, offset, last, seen, offsetReads, dayReads, cols,
                   out, cell>>

\* the scan command run any number of times, starting without a dot file or
\* with an empty one
InitScan ==
    /\ day0 = FirstDay
    /\ clock = HoursPerDay * day0 + StartHour
    /\ pc = "scan"
    /\ err = "none"
    /\ nRepos = 0
    /\ repoIdx = 0
    /\ nCommits = 0
    /\ repoCommits = 0
    /\ commits = <<>>
    /\ offset = 0
    /\ last = NoCommit
    /\ seen = <<>>
    /\ offsetReads = {}
    /\ dayReads = {}
    /\ cols = <<>>
    /\ out = <<>>
    /\ cell = NoCell
    /\ dotFile \in {NoFile, [exists |-> TRUE, content |-> <<>>]}
    /\ found = <<>>
    /\ added = {}

NextScan == Scan

SpecScan == InitScan /\ [][NextScan]_vars

\* ------------------------------------------------------------------ claims

\* the reference instant of a run: the start of the day the run started on,
\* and the AlignmentOffset of that day
Today0 == HoursPerDay * day0
RunOffset == calcOffset(Today0)

\* no midnight has passed since the run started
SameDay == getBeginningOfDay(clock) = Today0

\* the calendar days between the day of the timestamp w and the day of the
\* instant t (0 when w is on or after the start of that day)
DaysBefore(w, t) ==
    IF w >= getBeginningOfDay(t) THEN 0
    ELSE (t \div HoursPerDay) - (w \div HoursPerDay)

\* all repositories of the list were aggregated
Aggregated == pc \in {"repos", "done"} /\ repoIdx = nRepos

\* the sum of s[lo] .. s[hi]
RECURSIVE SumSeq(_, _, _)
SumSeq(s, lo, hi) ==
    IF lo > hi THEN 0
    ELSE IF lo = hi THEN s[lo]
    ELSE LET mid == (lo + hi) \div 2
         IN  SumSeq(s, lo, mid) + SumSeq(s, mid + 1, hi)

\* the sum of the values of a map, and of all columns of a grid
SumMap(m) ==
    LET keys == sortMapIntoSlice(m)
    IN  SumSeq([i \in DOMAIN keys |-> m[keys[i]]], 1, Len(keys))
SumGrid(g) ==
    LET weeks == sortMapIntoSlice(g)
    IN  SumSeq([i \in DOMAIN weeks |->
                   SumSeq(g[weeks[i]], 1, Len(g[weeks[i]]))], 1, Len(weeks))

\* the cell printed for week i in row j (rows and cells are kept in print
\* order)
CellOf(i, j) == out[DaysPerWeek - j].cells[weeksInLastSixMonths + 2 - i]

\* C1: after aggregation, every histogram key with a non-zero count lies in
\* [AlignmentOffset(now), W + AlignmentOffset(now)]: a commit of the target
\* author older than the window increments nothing.
C1_OutOfRangeExcluded ==
    (Aggregated /\ SameDay) =>
        \A k \in DOMAIN commits :
            commits[k] > 0 =>
                k \in RunOffset..(daysInLastSixMonths + RunOffset)

\* C2: a repository that cannot be opened, has no HEAD or yields a log error
\* is skipped: the run is never aborted by it.
FillErrors == {"open", "head", "log", "iter"}
C3_FoldPreservesSum ==
    (pc = "done"
     /\ \A k \in DOMAIN commits : k <= daysInLastSixMonths + DaysPerWeek)
        => SumGrid(cols) = SumMap(commits)

\* C4: for every weekday of now, printCells completes its 7 rows without
\* aborting and prints the cell of week 0, row AlignmentOffset(now) - 1 with
\* the today highlight.
C4_TodayCellRendered ==
    /\ err # "index"
    /\ (pc = "done" /\ SameDay) =>
          /\ Len(out) = DaysPerWeek
          /\ CellOf(0, RunOffset - 1).today

\* C5: every key k of the histogram is stored at grid[k div 7][k mod 7], and
\* every cell (week, position) of the grid holds the count of the key
\* 7 * week + position.
C5_CellHoldsDayIndex ==
    pc = "done" =>
        /\ \A k \in DOMAIN commits :
              /\ (k \div DaysPerWeek) \in DOMAIN cols
              /\ inRange(cols[k \div DaysPerWeek], k % DaysPerWeek)
              /\ cols[k \div DaysPerWeek][(k % DaysPerWeek) + 1] = commits[k]
        /\ \A w \in DOMAIN cols :
              \A p \in 0..(Len(cols[w]) - 1) :
                  /\ (DaysPerWeek * w + p) \in DOMAIN commits
                  /\ cols[w][p + 1] = commits[DaysPerWeek * w + p]

\* how often the commits of the set S were seen so far
RECURSIVE SumSeen(_)
SumSeen(S) ==
    IF S = {} THEN 0
    ELSE LET c == CHOOSE x \in S : TRUE
         IN  seen[c] + SumSeen(S \ {c})
\* the commits of the target author inside the window, each with its DayIndex
TargetIndex ==
    [c \in {x \in Commits :
               /\ x[1] = email
               /\ DaysBefore(x[2], Today0) <= daysInLastSixMonths}
       |-> DaysBefore(c[2], Today0) + RunOffset]

\* C6: for every DayIndex k of the window the histogram value at k (0 when
\* the map has no key k) is the number of commits, over all repositories
\* read so far, whose author email is the target email and whose DayIndex
\* is k (the reference day being the day of the run: no midnight has passed
\* since it started).
C6_CountsTargetCommits ==
    (pc \in {"log", "repos", "done"} /\ SameDay) =>
        \A idx \in {TargetIndex}, lo \in {RunOffset} :
            \* an entry of the window that is not 0 counts the commits seen
            /\ \A k \in DOMAIN commits :
                  (commits[k] # 0 /\ k >= lo /\ k <= daysInLastSixMonths + lo)
                      => commits[k] = SumSeen({c \in DOMAIN idx : idx[c] = k})
            \* the commits seen are counted in the entry of their DayIndex
            /\ \A c \in DOMAIN idx :
                  (IF idx[c] \in DOMAIN commits THEN commits[idx[c]] ELSE 0)
                      = SumSeen({x \in DOMAIN idx : idx[x] = idx[c]})

\* the second repository yields its first commit, the first repository
\* yielded another one, and both are counted in one entry
C6_Witness ==
    /\ pc = "log" /\ SameDay
    /\ repoIdx = 2 /\ repoCommits = 1 /\ nCommits = 2
    /\ \E k \in DOMAIN commits : commits[k] = 2

\* C7: every histogram increment and the today-cell test of one run use the
\* same AlignmentOffset and the same reference day, whatever the wall clock
\* does during the run.
C7_OneReferenceDay ==
    /\ Cardinality(offsetReads) <= 1
    /\ Cardinality(dayReads) <= 1

\* C8: printCell prints 4 visible characters for every value from 0 to 999.
C8_CellWidth == (pc = "cell" /\ cell # NoCell) => Len(cell.text) = 4

\* the weekday (0 = Sunday) of the day whose DayIndex is k
WeekdayOfKey(k) == (day0 - (k - RunOffset)) % DaysPerWeek

\* C9: the rows are printed Sunday first to Saturday last, and the labels
\* Mon, Wed, Fri stand on the rows whose cells (in every complete week
\* column i, where row j holds DayIndex 7 * i + j) hold the counts of the
\* Mondays, Wednesdays and Fridays; the other rows carry the blank label.
C9_RowsAndLabels ==
    (pc = "done" /\ SameDay) =>
        \A n \in DOMAIN out :
            \A i \in DOMAIN cols :
                Len(cols[i]) = DaysPerWeek =>
                    LET wd == WeekdayOfKey(DaysPerWeek * i + out[n].day)
                    IN  /\ wd = n - 1
                        /\ out[n].label = " Mon " <=> wd = 1
                        /\ out[n].label = " Wed " <=> wd = 3
                        /\ out[n].label = " Fri " <=> wd = 5
                        /\ out[n].label
                             \in {" Mon ", " Wed ", " Fri ", "     "}

\* what countDaysSinceDate is to return for the timestamp w at the instant t
ExpectedDays(w, t) ==
    IF DaysBefore(w, t) > daysInLastSixMonths
    THEN outOfRange
    ELSE DaysBefore(w, t)

OffsetTable == <<7, 6, 5, 4, 3, 2, 1>>

\* the map m with one more at key k and nothing else changed
OneMoreAt(m, k) ==
    [j \in DOMAIN m \cup {k} |->
        (IF j \in DOMAIN m THEN m[j] ELSE 0) + (IF j = k THEN 1 ELSE 0)]

\* C11: calcOffset gives Sunday -> 7, Monday -> 6, Tuesday -> 5,
\* Wednesday -> 4, Thursday -> 3, Friday -> 2, Saturday -> 1 on every
\* weekday, never 0; and the callback, for a commit of the target author
\* made d <= W days before today, increments exactly the histogram key
\* d + AlignmentOffset(now) (now being on the day the run started).
C11_OffsetAndKey ==
    [][/\ (pc = "repos" /\ pc' = "log") =>
            /\ offset' = OffsetTable[Weekday(clock) + 1]
            /\ offset' \in 1..DaysPerWeek
       /\ \A c \in Commits :
            (/\ seen'[c] = seen[c] + 1
             /\ c[1] = email
             /\ SameDay
             /\ DaysBefore(c[2], Today0) <= daysInLastSixMonths) =>
                commits' =
                    OneMoreAt(commits, DaysBefore(c[2], Today0) + RunOffset)
      ]_vars

\* on a Wednesday the one commit read so far, made yesterday by the target
\* author, went to key 5
C11_Witness ==
    /\ Weekday(Today0) = 3
    /\ SameDay
    /\ pc = "log"
    /\ offset = 4
    /\ nCommits = 1
    /\ last # NoCommit
    /\ last.days = 1
    /\ commits[5] = 1

\* the stored path list: the lines of the dot file
Stored(file) == scanLines(file.content, 1, <<>>)

\* no entry of the slice occurs twice; the slice s starts the slice t
NoDuplicates(s) == \A i, j \in DOMAIN s : s[i] = s[j] => i = j
IsPrefix(s, t) == Len(s) <= Len(t) /\ SubSeq(t, 1, Len(s)) = s

\* C12: after every scan/add operation on a list that started empty, the
\* stored path list has no duplicate entry, contains every path ever
\* added, and starts with the list stored before the operation, unchanged.
C12_StoredListDeduplicated ==
    [][/\ NoDuplicates(Stored(dotFile'))
       /\ added' \subseteq Range(Stored(dotFile'))
       /\ IsPrefix(Stored(dotFile), Stored(dotFile'))
      ]_vars

\* the grid g of the histogram m has a week-0 column of 6 entries holding
\* the keys 1..6, and columns of 7 entries holding the keys 7 * w + p for
\* the weeks 1..25
ColumnsShape(g, m) ==
    /\ 0 \in DOMAIN g
    /\ Len(g[0]) = DaysPerWeek - 1
    /\ \A p \in 0..(DaysPerWeek - 2) : g[0][p + 1] = m[p + 1]
    /\ \A w \in 1..(weeksInLastSixMonths - 1) :
          /\ w \in DOMAIN g
          /\ Len(g[w]) = DaysPerWeek
          /\ \A p \in 0..(DaysPerWeek - 1) :
                g[w][p + 1] = m[DaysPerWeek * w + p]

\* the commits the target author made on the day of the run
TodayCommits == {c \in Commits : c[1] = email /\ DaysBefore(c[2], Today0) = 0}

\* C13: the histogram never has key 0, so the week-0 column buildCols makes
\* always has exactly 6 entries, position p holding the count of DayIndex
\* p + 1, while each column of the weeks 1..25 has 7 entries, position p
\* holding DayIndex 7 * week + p; and for AlignmentOffset 1..6 the one
\* highlighted cell (week 0, position AlignmentOffset - 1) shows
\* histogram[AlignmentOffset], the count of today's commits.
C13_WeekZeroShifted ==
    /\ (pc = "repos" /\ repoIdx = nRepos) =>
          /\ 0 \notin DOMAIN commits
          /\ \A g \in {buildCols(sortMapIntoSlice(commits), commits)} :
                ColumnsShape(g, commits)
    /\ pc = "done" =>
          \A off \in {calcOffset(clock)} :
              /\ ColumnsShape(cols, commits)
              /\ off \in 1..(DaysPerWeek - 1) =>
                    /\ \A n \in DOMAIN out :
                          \A k \in DOMAIN out[n].cells :
                              out[n].cells[k].today <=>
                                  /\ out[n].day = off - 1
                                  /\ rowWeeks[k] = 0
                    /\ CellOf(0, off - 1).today
                    /\ CellOf(0, off - 1).val = commits[off]
                    /\ SameDay =>
                          CellOf(0, off - 1).val = SumSeen(TodayCommits)

\* two commits made today by the target author are shown in the highlighted
\* cell of a run that is not on a Sunday
C13_Witness ==
    /\ pc = "done"
    /\ SameDay
    /\ RunOffset \in 1..(DaysPerWeek - 1)
    /\ SumSeen(TodayCommits) = 2
    /\ CellOf(0, RunOffset - 1).today
    /\ CellOf(0, RunOffset - 1).val = 2

====
